---- MODULE Spec2Model ----
(***************************************************************************)
(* Model of the bootstrap job queue state (package queue, state.go):      *)
(* the job store with its content cache, the runnable queue, the          *)
(* dependency buckets with their handle cache, the missing set and the    *)
(* persisted pending-jobs counter.                                        *)
(*                                                                         *)
(* The key-value store is split by prefix into one variable per           *)
(* namespace.  A linkeddb is a sequence of distinct keys; a plain         *)
(* database is a function from its key universe to a value or NoValue.    *)
(* Each store call of an operation can fail: the operation's `fail`       *)
(* input names the call that returns an I/O error ("none": no failure).   *)
(***************************************************************************)
EXTENDS Integers, Sequences, FiniteSets, TLC

\* ------------------------------------------------------------- bounds
NumIDs == 2
\* Capacities of the two LRU caches, scaled down from jobsCacheSize = 2048
\* and dependentsCacheSize = 1024 so that eviction happens among NumIDs ids.
JobsCacheCap == 1
DependentsCacheCap == 1
\* Number of PutJob / RemoveRunnableJob calls that reach the counter update.
MaxPuts == 2
MaxRemoves == 2

\* ------------------------------------------------------------- constants
IDLen == 1
pendingJobsKey == "pendingJobs"

IDs == 1..NumIDs
\* What a database holds at a key it does not contain (every stored job and
\* every stored counter is a non-empty byte string).
NoValue == <<>>
ErrNil == "nil"
ErrNotFound == "not found"
ErrIO == "io"
ErrParse == "parse"
ErrInvalidLen == "invalid hash length"
ErrMeteredCache == "couldn't create metered cache"

\* ------------------------------------------------------------- ids, jobs
\* id[:] : the bytes of an id, used as the store key.
IDKey(id) == <<id>>

\* ids.ToID : the id of a key, an error unless the key has the id length.
ToID(key) ==
  IF Len(key) = IDLen THEN [id |-> key[1], err |-> ErrNil]
  ELSE [id |-> 0, err |-> ErrInvalidLen]

Keys == {IDKey(i) : i \in IDs}

\* Job.Bytes() of the job with id i.
Serialize(i) == <<"job", i>>

\* A Job exposes ID() and Bytes(); its id identifies its content.
MkJob(i) == [id |-> i, bytes |-> Serialize(i)]
Jobs == {MkJob(i) : i \in IDs}
NoJob == [id |-> 0, bytes |-> <<>>]

\* Parser.Parse : bytes -> Job, a decode error on bytes of no job.
Parse(b) ==
  IF \E i \in IDs : Serialize(i) = b
  THEN [job |-> MkJob(CHOOSE i \in IDs : Serialize(i) = b), err |-> ErrNil]
  ELSE [job |-> NoJob, err |-> ErrParse]

\* ------------------------------------------------------------- cache.LRU
\* A cache is a sequence of <<key, value>> entries, most recently used first.
RECURSIVE LRUWithout(_, _)
LRUWithout(c, k) ==
  IF c = <<>> THEN <<>>
  ELSE IF Head(c)[1] = k THEN LRUWithout(Tail(c), k)
  ELSE <<Head(c)>> \o LRUWithout(Tail(c), k)

LRUHas(c, k) == \E n \in 1..Len(c) : c[n][1] = k

LRUValue(c, k) == c[CHOOSE n \in 1..Len(c) : c[n][1] = k][2]

\* Get marks the entry as most recently used.
LRUTouch(c, k) ==
  IF LRUHas(c, k) THEN <<<<k, LRUValue(c, k)>>>> \o LRUWithout(c, k) ELSE c

\* Put inserts at the front and evicts the least recently used beyond cap.
LRUPut(c, k, v, cap) ==
  LET all == <<<<k, v>>>> \o LRUWithout(c, k)
  IN  IF Len(all) > cap THEN SubSeq(all, 1, cap) ELSE all

LRUFlush == <<>>

\* ------------------------------------------------------------- linkeddb
\* A linked database is the sequence of its keys in list order.
RECURSIVE SeqWithout(_, _)
SeqWithout(q, k) ==
  IF q = <<>> THEN <<>>
  ELSE IF Head(q) = k THEN SeqWithout(Tail(q), k)
  ELSE <<Head(q)>> \o SeqWithout(Tail(q), k)

SeqHas(q, k) == \E n \in 1..Len(q) : q[n] = k

SeqSet(q) == {q[n] : n \in 1..Len(q)}

\* A linkeddb is written as the sequence of its keys from the head of the
\* list on, the order in which HeadKey and the iterator find them.  As in
\* avalanchego's linkeddb, Put of a new key links it in as the new head, and
\* Put of a present key overwrites its (empty) value in place.
LinkedPut(q, k) == IF SeqHas(q, k) THEN q ELSE <<k>> \o q

\* Delete unlinks the key; deleting an absent key is a no-op.
LinkedDelete(q, k) == SeqWithout(q, k)

LinkedIsEmpty(q) == q = <<>>

\* HeadKey : the key at the head of the list, ErrNotFound when empty.
LinkedHeadKey(q) ==
  IF q = <<>> THEN [key |-> <<>>, err |-> ErrNotFound]
  ELSE [key |-> Head(q), err |-> ErrNil]

\* ------------------------------------------------------------- state
VARIABLES
  jobs,             \* prefix "jobs": key -> job bytes or NoValue
  runnableJobIDs,   \* prefix "runnable": linkeddb of keys
  dependencies,     \* prefix "dependencies": dependency id -> linkeddb of keys
  missingJobIDs,    \* prefix "missing job IDs": linkeddb of keys
  pendingJobs,      \* prefix "pendingJobs": pendingJobsKey -> uint64 or NoValue
  numPendingJobs,   \* state.numPendingJobs
  cachingEnabled,   \* state.cachingEnabled
  jobsCache,        \* state.jobsCache: LRU of <<id, Job>>
  dependentsCache,  \* state.dependentsCache: LRU of <<dependency id, handle>>
  last,             \* the last operation, its argument and what it returned
  hist              \* history of the run, read by the properties only

vars == <<jobs, runnableJobIDs, dependencies, missingJobIDs, pendingJobs,
          numPendingJobs, cachingEnabled, jobsCache, dependentsCache, last, hist>>

dbVars == <<jobs, runnableJobIDs, dependencies, missingJobIDs, pendingJobs>>

PendingKeys == {pendingJobsKey}

\* ------------------------------------------------------------- pending counter
\* The stored form of a uint64 and its reading.
PackUInt64(n) == <<"u64", n>>
UnpackUInt64(b) == b[2]

\* initializePendingJobs(d): the number of entries an iteration over d finds,
\* returned with iterator.Error().  fail = <<"iterator", j>>: the iterator
\* stops with an error after j entries.
initializePendingJobs(d, fail) ==
  LET count == Cardinality({k \in DOMAIN d : d[k] # NoValue})
  IN  IF fail[1] = "iterator" /\ fail[2] <= count
      THEN [val |-> fail[2], err |-> ErrIO]
      ELSE [val |-> count, err |-> ErrNil]

\* getPendingJobs(d): database.GetUInt64(d, pendingJobsKey), and the scan of
\* the same database d when the key is not found; any other error of the
\* read is returned (fail = <<"pendingJobs.Get", 0>>: the read fails).
getPendingJobs(d, fail) ==
  IF fail[1] = "pendingJobs.Get" THEN [val |-> 0, err |-> ErrIO]
  ELSE IF d[pendingJobsKey] = NoValue THEN initializePendingJobs(d, fail)
  ELSE [val |-> UnpackUInt64(d[pendingJobsKey]), err |-> ErrNil]

\* database.PutUInt64(s.pendingJobs, pendingJobsKey, n)
PutUInt64(d, n) == [d EXCEPT ![pendingJobsKey] = PackUInt64(n)]

\* Mutant of GuardRail: the counter is decremented whatever its value.
GuardRailOff(n) == FALSE

\* "Guard rail to make sure we don't underflow": if s.numPendingJobs == 0.
GuardRail(n) == n = 0

\* The guard rail and decrement of RemoveRunnableJob.  A uint64 is written
\* as its two's-complement reading: 0 - 1, which wraps to 2^64 - 1, is -1.
DecrementPending(n) == IF GuardRail(n) THEN n ELSE n - 1


\* numPendingJobs++ of PutJob (a uint64: the wrap at 2^64 is out of reach of
\* MaxPuts increments).
IncrementPending(n) == n + 1

\* ------------------------------------------------------------- job store
\* Mutant of PutJobCache: the job is cached whether caching is enabled or not.
PutJobCacheAlways(enabled, cache, job) ==
  LRUPut(cache, job.id, job, JobsCacheCap)

\* PutJob's cache insertion: only while caching is enabled.
PutJobCache(enabled, cache, job) ==
  IF enabled THEN LRUPut(cache, job.id, job, JobsCacheCap) ELSE cache

\* HasJob(id): a cache hit answers true, otherwise s.jobs.Has decides.
HasJobEval(enabled, cache, db, id, fail) ==
  IF enabled /\ LRUHas(cache, id)
  THEN [has |-> TRUE, err |-> ErrNil, cache |-> LRUTouch(cache, id), fault |-> FALSE]
  ELSE IF fail = "jobs.Has"
  THEN [has |-> FALSE, err |-> ErrIO, cache |-> cache, fault |-> TRUE]
  ELSE [has |-> db[IDKey(id)] # NoValue, err |-> ErrNil, cache |-> cache,
        fault |-> FALSE]

\* Mutant of GetJobEval: a cache miss is answered NotFound, the store is
\* not read.
GetJobEvalCacheOnly(enabled, cache, db, id, fail) ==
  IF enabled /\ LRUHas(cache, id)
  THEN [job |-> LRUValue(cache, id), err |-> ErrNil,
        cache |-> LRUTouch(cache, id), fault |-> FALSE]
  ELSE [job |-> NoJob, err |-> ErrNotFound, cache |-> cache, fault |-> FALSE]

\* GetJob(id): a cache hit returns the cached job; otherwise the bytes are
\* read from the store and parsed, and the parsed job is cached when caching
\* is enabled.
GetJobEval(enabled, cache, db, id, fail) ==
  IF enabled /\ LRUHas(cache, id)
  THEN [job |-> LRUValue(cache, id), err |-> ErrNil,
        cache |-> LRUTouch(cache, id), fault |-> FALSE]
  ELSE IF fail = "jobs.Get"
  THEN [job |-> NoJob, err |-> ErrIO, cache |-> cache, fault |-> TRUE]
  ELSE IF db[IDKey(id)] = NoValue
  THEN [job |-> NoJob, err |-> ErrNotFound, cache |-> cache, fault |-> FALSE]
  ELSE LET p == Parse(db[IDKey(id)])
       IN  [job |-> p.job, err |-> p.err,
            cache |-> IF p.err = ErrNil /\ enabled
                      THEN LRUPut(cache, id, p.job, JobsCacheCap) ELSE cache,
            fault |-> FALSE]

\* What PutJob(job) does to the state and what it returns.
PutJobOut(job, fail) ==
  LET cache == PutJobCache(cachingEnabled, jobsCache, job)
      n     == IncrementPending(numPendingJobs)
      put   == [jobs EXCEPT ![IDKey(job.id)] = job.bytes]
  IN  IF fail = "jobs.Put"
      THEN [jobs |-> jobs, cache |-> cache, num |-> numPendingJobs,
            pending |-> pendingJobs, err |-> ErrIO]
      ELSE IF fail = "pendingJobs.Put"
      THEN [jobs |-> put, cache |-> cache, num |-> n,
            pending |-> pendingJobs, err |-> ErrIO]
      ELSE [jobs |-> put, cache |-> cache, num |-> n,
            pending |-> PutUInt64(pendingJobs, n), err |-> ErrNil]

\* ------------------------------------------------------------- runnable queue
\* The key RemoveRunnableJob takes from the queue: s.runnableJobIDs.HeadKey().
RunnableNext(q) == LinkedHeadKey(q)

\* Mutant of RunnablePop: the key taken stays in the queue.
RunnablePopKeeps(q, key) == q

\* s.runnableJobIDs.Delete(jobIDBytes): the key taken leaves the queue.
RunnablePop(q, key) == LinkedDelete(q, key)

\* Mutant of HasRunnableJobEval: the emptiness test is returned un-negated.
HasRunnableJobEvalIsEmpty(q, fail) ==
  IF fail = "runnable.IsEmpty" THEN [has |-> TRUE, err |-> ErrIO]
  ELSE [has |-> LinkedIsEmpty(q), err |-> ErrNil]

\* HasRunnableJob(): isEmpty, err := linkeddb.IsEmpty(...); return !isEmpty, err
\* (on an error isEmpty is false).
HasRunnableJobEval(q, fail) ==
  IF fail = "runnable.IsEmpty" THEN [has |-> TRUE, err |-> ErrIO]
  ELSE [has |-> ~LinkedIsEmpty(q), err |-> ErrNil]

\* What RemoveRunnableJob() does to the state and what it returns:
\* `deleted` says whether the job was deleted from the job store.
RemoveRunnableJobOut(fail) ==
  LET head   == RunnableNext(runnableJobIDs)
      popped == RunnablePop(runnableJobIDs, head.key)
      cid    == ToID(head.key)
      g      == GetJobEval(cachingEnabled, jobsCache, jobs, cid.id, fail)
      del    == [jobs EXCEPT ![head.key] = NoValue]
      n      == DecrementPending(numPendingJobs)
      same   == [runnable |-> runnableJobIDs, jobs |-> jobs, cache |-> jobsCache,
                 num |-> numPendingJobs, pending |-> pendingJobs, job |-> NoJob,
                 err |-> ErrNil, fault |-> FALSE, deleted |-> FALSE]
  IN  IF fail = "runnable.HeadKey"
      THEN [same EXCEPT !.err = ErrIO, !.fault = TRUE]
      ELSE IF head.err # ErrNil
      THEN [same EXCEPT !.err = head.err]
      ELSE IF fail = "runnable.Delete"
      THEN [same EXCEPT !.err = ErrIO, !.fault = TRUE]
      ELSE IF cid.err # ErrNil
      THEN [same EXCEPT !.runnable = popped, !.err = cid.err]
      ELSE IF g.err # ErrNil
      THEN [same EXCEPT !.runnable = popped, !.cache = g.cache, !.err = g.err,
                        !.fault = g.fault]
      ELSE IF fail = "jobs.Delete"
      THEN [same EXCEPT !.runnable = popped, !.cache = g.cache, !.job = g.job,
                        !.err = ErrIO, !.fault = TRUE]
      ELSE IF GuardRail(numPendingJobs)
      THEN [same EXCEPT !.runnable = popped, !.cache = g.cache, !.job = g.job,
                        !.jobs = del, !.deleted = TRUE]
      ELSE IF fail = "pendingJobs.Put"
      THEN [same EXCEPT !.runnable = popped, !.cache = g.cache, !.job = g.job,
                        !.jobs = del, !.deleted = TRUE, !.num = n,
                        !.err = ErrIO, !.fault = TRUE]
      ELSE [same EXCEPT !.runnable = popped, !.cache = g.cache, !.job = g.job,
                        !.jobs = del, !.deleted = TRUE, !.num = n,
                        !.pending = PutUInt64(pendingJobs, n)]

\* ------------------------------------------------------------- dependencies
\* linkeddb.NewDefault(prefixdb.New(dependency[:], s.dependencies)): a handle
\* on the bucket of one dependency.
NewDependentsDB(dependency) == [prefix |-> dependency]

\* Mutant of getDependentsDB: with caching enabled, any cached handle is
\* returned, whatever dependency it was made for.
getDependentsDBAnyCached(enabled, cache, dependency) ==
  IF enabled /\ cache # <<>>
  THEN [db |-> Head(cache)[2], cache |-> cache]
  ELSE LET h == NewDependentsDB(dependency)
       IN  [db |-> h,
            cache |-> IF enabled
                      THEN LRUPut(cache, dependency, h, DependentsCacheCap)
                      ELSE cache]

\* getDependentsDB(dependency): the cached handle when caching is enabled and
\* the cache has one, otherwise a new handle, cached when caching is enabled.
getDependentsDB(enabled, cache, dependency) ==
  IF enabled /\ LRUHas(cache, dependency)
  THEN [db |-> LRUValue(cache, dependency), cache |-> LRUTouch(cache, dependency)]
  ELSE LET h == NewDependentsDB(dependency)
       IN  [db |-> h,
            cache |-> IF enabled
                      THEN LRUPut(cache, dependency, h, DependentsCacheCap)
                      ELSE cache]

\* AddDependency(dependency, dependent): Put of the dependent's key in the
\* bucket of the handle.
AddDependencyOut(enabled, cache, deps, dependency, dependent, fail) ==
  LET h == getDependentsDB(enabled, cache, dependency)
  IN  IF fail = "dependents.Put"
      THEN [deps |-> deps, cache |-> h.cache, err |-> ErrIO]
      ELSE [deps |-> [deps EXCEPT ![h.db.prefix] = LinkedPut(@, IDKey(dependent))],
            cache |-> h.cache, err |-> ErrNil]

\* Mutant of DrainLoop: when a Delete fails, the dependents collected so far
\* are returned with the error.
RECURSIVE DrainLoopReturnsPartial(_, _, _, _, _)
DrainLoopReturnsPartial(bucket, rest, n, acc, fail) ==
  IF fail = <<"iterator", n - 1>>
  THEN [bucket |-> bucket, ids |-> acc, err |-> ErrIO]
  ELSE IF rest = <<>>
  THEN [bucket |-> bucket, ids |-> acc, err |-> ErrNil]
  ELSE IF fail = <<"dependents.Delete", n>>
  THEN [bucket |-> bucket, ids |-> acc, err |-> ErrIO]
  ELSE LET c == ToID(Head(rest))
       IN  IF c.err # ErrNil
           THEN [bucket |-> LinkedDelete(bucket, Head(rest)), ids |-> <<>>,
                 err |-> c.err]
           ELSE DrainLoopReturnsPartial(LinkedDelete(bucket, Head(rest)),
                                        Tail(rest), n + 1, Append(acc, c.id),
                                        fail)

\* The loop of RemoveDependencies: `bucket` is the stored bucket, `rest` what
\* the iterator has still to deliver, n the number of the next entry, acc the
\* dependents collected.  fail = <<"dependents.Delete", k>>: the k-th Delete
\* fails; fail = <<"iterator", j>>: the iterator stops with an error after j
\* entries.
RECURSIVE DrainLoop(_, _, _, _, _)
DrainLoop(bucket, rest, n, acc, fail) ==
  IF fail = <<"iterator", n - 1>>
  THEN [bucket |-> bucket, ids |-> acc, err |-> ErrIO]
  ELSE IF rest = <<>>
  THEN [bucket |-> bucket, ids |-> acc, err |-> ErrNil]
  ELSE IF fail = <<"dependents.Delete", n>>
  THEN [bucket |-> bucket, ids |-> <<>>, err |-> ErrIO]
  ELSE LET c == ToID(Head(rest))
       IN  IF c.err # ErrNil
           THEN [bucket |-> LinkedDelete(bucket, Head(rest)), ids |-> <<>>,
                 err |-> c.err]
           ELSE DrainLoop(LinkedDelete(bucket, Head(rest)), Tail(rest), n + 1,
                          Append(acc, c.id), fail)

\* RemoveDependencies(dependency): iterates over the bucket of the handle,
\* deleting each entry and collecting its id.
RemoveDependenciesOut(enabled, cache, deps, dependency, fail) ==
  LET h == getDependentsDB(enabled, cache, dependency)
      r == DrainLoop(deps[h.db.prefix], deps[h.db.prefix], 1, <<>>, fail)
  IN  [deps |-> [deps EXCEPT ![h.db.prefix] = r.bucket], cache |-> h.cache,
       ids |-> r.ids, err |-> r.err]

\* ------------------------------------------------------------- missing set
\* The loop of AddMissingJobIDs over the ids in the order the set is ranged
\* over; fail = <<"missing.Put", k>>: the k-th Put fails.
RECURSIVE AddMissingLoop(_, _, _, _)
AddMissingLoop(q, order, n, fail) ==
  IF order = <<>> THEN [q |-> q, err |-> ErrNil]
  ELSE IF fail = <<"missing.Put", n>> THEN [q |-> q, err |-> ErrIO]
  ELSE AddMissingLoop(LinkedPut(q, IDKey(Head(order))), Tail(order), n + 1, fail)

\* Mutant of RemoveMissingLoop: returns after the first id.
RemoveMissingLoopFirstOnly(q, order, n, fail) ==
  IF order = <<>> THEN [q |-> q, err |-> ErrNil]
  ELSE IF fail = <<"missing.Delete", n>> THEN [q |-> q, err |-> ErrIO]
  ELSE [q |-> LinkedDelete(q, IDKey(Head(order))), err |-> ErrNil]

\* The loop of RemoveMissingJobIDs; fail = <<"missing.Delete", k>>: the k-th
\* Delete fails.
RECURSIVE RemoveMissingLoop(_, _, _, _)
RemoveMissingLoop(q, order, n, fail) ==
  IF order = <<>> THEN [q |-> q, err |-> ErrNil]
  ELSE IF fail = <<"missing.Delete", n>> THEN [q |-> q, err |-> ErrIO]
  ELSE RemoveMissingLoop(LinkedDelete(q, IDKey(Head(order))), Tail(order),
                         n + 1, fail)

\* The loop of MissingJobIDs: the ids of the keys the iterator delivers; the
\* list collected is returned with a nil error when the iterator stops,
\* also when it stops with an error (fail = <<"iterator", j>>: after j keys).
RECURSIVE MissingLoop(_, _, _, _)
MissingLoop(rest, n, acc, fail) ==
  IF fail = <<"iterator", n - 1>> \/ rest = <<>>
  THEN [ids |-> acc, err |-> ErrNil]
  ELSE LET c == ToID(Head(rest))
       IN  IF c.err # ErrNil THEN [ids |-> <<>>, err |-> c.err]
           ELSE MissingLoop(Tail(rest), n + 1, Append(acc, c.id), fail)

MissingJobIDsEval(q, fail) == MissingLoop(q, 1, <<>>, fail)

\* The orders in which the ids of a set can be ranged over.
Orders(S) ==
  {o \in UNION {[1..n -> S] : n \in {Cardinality(S)}} :
     \A a, b \in 1..Cardinality(S) : a # b => o[a] # o[b]}

NoFail == <<"none", 0>>

\* ------------------------------------------------------------- results, history
Last(op, id, err, job, has, ids) ==
  [op |-> op, id |-> id, err |-> err, job |-> job, has |-> has, ids |-> ids]

\* live[i]: "put" once PutJob of job i succeeded, "dequeued" once
\* RemoveRunnableJob deleted job i from the job store, "never" before both.
\* nPut, nRem: the PutJob and RemoveRunnableJob calls that returned no error.
\* faults: some store call has failed.
\* order: the ids added by AddRunnableJob and not yet taken from the queue,
\* in the order of their first addition.
\* added[d]: the dependents AddDependency has added to d since the last
\* RemoveDependencies(d) that returned no error.
\* partial[d]: a RemoveDependencies(d) that returned an error has deleted
\* entries of d since then.
\* missing: the ids whose last successful Add/RemoveMissingJobIDs was an add.
\* dropped: the ids a successful RemoveMissingJobIDs took out of `missing`
\* and none has added since.
HistInit ==
  [live |-> [i \in IDs |-> "never"], nPut |-> 0, nRem |-> 0, faults |-> FALSE,
   order |-> <<>>, added |-> [d \in IDs |-> {}],
   partial |-> [d \in IDs |-> FALSE], missing |-> {}, dropped |-> {}]

\* ------------------------------------------------------------- construction
\* newState(db): the counter is read by getPendingJobs from the database
\* under the pendingJobs prefix; both caches start empty and enabled.
NewStateCounter(pendingDB, fail) == getPendingJobs(pendingDB, fail)

\* The error returns of newState: metercacher.New fails (fail =
\* <<"metercacher.New", 0>>) before anything is read, or getPendingJobs fails.
NewStateOut(pendingDB, fail) ==
  IF fail[1] = "metercacher.New" THEN [val |-> 0, err |-> ErrMeteredCache]
  ELSE NewStateCounter(pendingDB, fail)

EmptyDB ==
  /\ jobs = [k \in Keys |-> NoValue]
  /\ runnableJobIDs = <<>>
  /\ dependencies = [d \in IDs |-> <<>>]
  /\ missingJobIDs = <<>>
  /\ pendingJobs = [k \in PendingKeys |-> NoValue]

\* The state after a newState that returned no error.
Constructed ==
  /\ NewStateOut(pendingJobs, NoFail).err = ErrNil
  /\ numPendingJobs = NewStateOut(pendingJobs, NoFail).val
  /\ cachingEnabled = TRUE
  /\ jobsCache = <<>>
  /\ dependentsCache = <<>>
  /\ last = Last("newState", 0, ErrNil, NoJob, FALSE, <<>>)
  /\ hist = HistInit

Init == EmptyDB /\ Constructed

\* ------------------------------------------------------------- actions
\* There is a state object to call a method on: the last newState returned
\* no error.
StateExists == ~(last.op = "newState" /\ last.err # ErrNil)

PutJob(job, fail) ==
  LET out == PutJobOut(job, fail)
  IN  /\ StateExists
      /\ hist.nPut < MaxPuts
      /\ numPendingJobs < MaxPuts
      /\ jobs' = out.jobs
      /\ jobsCache' = out.cache
      /\ numPendingJobs' = out.num
      /\ pendingJobs' = out.pending
      /\ last' = Last("PutJob", job.id, out.err, NoJob, FALSE, <<>>)
      /\ hist' = IF out.err = ErrNil
                 THEN [hist EXCEPT !.nPut = @ + 1, !.live[job.id] = "put"]
                 ELSE [hist EXCEPT !.faults = TRUE]
      /\ UNCHANGED <<runnableJobIDs, dependencies, missingJobIDs,
                     cachingEnabled, dependentsCache>>

HasJob(id, fail) ==
  LET out == HasJobEval(cachingEnabled, jobsCache, jobs, id, fail)
  IN  /\ StateExists
      /\ jobsCache' = out.cache
      /\ last' = Last("HasJob", id, out.err, NoJob, out.has, <<>>)
      /\ hist' = [hist EXCEPT !.faults = @ \/ out.fault]
      /\ UNCHANGED <<dbVars, numPendingJobs, cachingEnabled, dependentsCache>>

GetJob(id, fail) ==
  LET out == GetJobEval(cachingEnabled, jobsCache, jobs, id, fail)
  IN  /\ StateExists
      /\ jobsCache' = out.cache
      /\ last' = Last("GetJob", id, out.err, out.job, FALSE, <<>>)
      /\ hist' = [hist EXCEPT !.faults = @ \/ out.fault]
      /\ UNCHANGED <<dbVars, numPendingJobs, cachingEnabled, dependentsCache>>

AddRunnableJob(id, fail) ==
  /\ StateExists
  /\ runnableJobIDs' = IF fail = "runnable.Put" THEN runnableJobIDs
                       ELSE LinkedPut(runnableJobIDs, IDKey(id))
  /\ last' = Last("AddRunnableJob", id,
                  IF fail = "runnable.Put" THEN ErrIO ELSE ErrNil,
                  NoJob, FALSE, <<>>)
  /\ hist' = [hist EXCEPT
                !.faults = @ \/ (fail = "runnable.Put"),
                !.order = IF fail = "runnable.Put" \/ SeqHas(@, id) THEN @
                          ELSE Append(@, id)]
  /\ UNCHANGED <<jobs, dependencies, missingJobIDs, pendingJobs, numPendingJobs,
                 cachingEnabled, jobsCache, dependentsCache>>

HasRunnableJob(fail) ==
  /\ StateExists
  /\ last' = LET out == HasRunnableJobEval(runnableJobIDs, fail)
             IN  Last("HasRunnableJob", 0, out.err, NoJob, out.has, <<>>)
  /\ hist' = [hist EXCEPT !.faults = @ \/ (fail = "runnable.IsEmpty")]
  /\ UNCHANGED <<dbVars, numPendingJobs, cachingEnabled, jobsCache,
                 dependentsCache>>

RemoveRunnableJob(fail) ==
  LET out == RemoveRunnableJobOut(fail)
  IN  /\ StateExists
      /\ hist.nRem < MaxRemoves
      /\ runnableJobIDs' = out.runnable
      /\ jobs' = out.jobs
      /\ jobsCache' = out.cache
      /\ numPendingJobs' = out.num
      /\ pendingJobs' = out.pending
      /\ last' = Last("RemoveRunnableJob",
                      IF out.job = NoJob THEN 0 ELSE out.job.id,
                      out.err, out.job, FALSE, <<>>)
      /\ hist' = [hist EXCEPT
                    !.nRem = IF out.err = ErrNil THEN @ + 1 ELSE @,
                    !.live = IF out.deleted
                             THEN [@ EXCEPT ![out.job.id] = "dequeued"] ELSE @,
                    !.faults = @ \/ out.fault,
                    !.order = IF out.runnable # runnableJobIDs
                              THEN SeqWithout(@, ToID(RunnableNext(runnableJobIDs).key).id)
                              ELSE @]
      /\ UNCHANGED <<dependencies, missingJobIDs, cachingEnabled,
                     dependentsCache>>

DisableCaching ==
  /\ StateExists
  /\ dependentsCache' = LRUFlush
  /\ jobsCache' = LRUFlush
  /\ cachingEnabled' = FALSE
  /\ last' = Last("DisableCaching", 0, ErrNil, NoJob, FALSE, <<>>)
  /\ UNCHANGED <<dbVars, numPendingJobs, hist>>

AddDependency(dependency, dependent, fail) ==
  LET out == AddDependencyOut(cachingEnabled, dependentsCache, dependencies,
                              dependency, dependent, fail)
  IN  /\ StateExists
      /\ dependencies' = out.deps
      /\ dependentsCache' = out.cache
      /\ last' = Last("AddDependency", dependency, out.err, NoJob, FALSE, <<>>)
      /\ hist' = IF out.err = ErrNil
                 THEN [hist EXCEPT !.added[dependency] = @ \cup {dependent}]
                 ELSE [hist EXCEPT !.faults = TRUE]
      /\ UNCHANGED <<jobs, runnableJobIDs, missingJobIDs, pendingJobs,
                     numPendingJobs, cachingEnabled, jobsCache>>

RemoveDependencies(dependency, fail) ==
  LET out == RemoveDependenciesOut(cachingEnabled, dependentsCache,
                                   dependencies, dependency, fail)
  IN  /\ StateExists
      /\ fail[2] <= Len(dependencies[dependency])
      /\ dependencies' = out.deps
      /\ dependentsCache' = out.cache
      /\ last' = Last("RemoveDependencies", dependency, out.err, NoJob, FALSE,
                      out.ids)
      /\ hist' = IF out.err = ErrNil
                 THEN [hist EXCEPT !.added[dependency] = {},
                                   !.partial[dependency] = FALSE]
                 ELSE [hist EXCEPT !.faults = TRUE,
                                   !.partial[dependency] =
                                     @ \/ out.deps # dependencies]
      /\ UNCHANGED <<jobs, runnableJobIDs, missingJobIDs, pendingJobs,
                     numPendingJobs, cachingEnabled, jobsCache>>

AddMissingJobIDs(missingIDs, order, fail) ==
  LET out == AddMissingLoop(missingJobIDs, order, 1, fail)
  IN  /\ StateExists
      /\ order \in Orders(missingIDs)
      /\ fail[2] <= Len(order)
      /\ missingJobIDs' = out.q
      /\ last' = Last("AddMissingJobIDs", 0, out.err, NoJob, FALSE, <<>>)
      /\ hist' = IF out.err = ErrNil
                 THEN [hist EXCEPT !.missing = @ \cup missingIDs,
                                   !.dropped = @ \ missingIDs]
                 ELSE [hist EXCEPT !.faults = TRUE]
      /\ UNCHANGED <<jobs, runnableJobIDs, dependencies, pendingJobs,
                     numPendingJobs, cachingEnabled, jobsCache, dependentsCache>>

RemoveMissingJobIDs(missingIDs, order, fail) ==
  LET out == RemoveMissingLoop(missingJobIDs, order, 1, fail)
  IN  /\ StateExists
      /\ order \in Orders(missingIDs)
      /\ fail[2] <= Len(order)
      /\ missingJobIDs' = out.q
      /\ last' = Last("RemoveMissingJobIDs", 0, out.err, NoJob, FALSE, <<>>)
      /\ hist' = IF out.err = ErrNil
                 THEN [hist EXCEPT !.missing = @ \ missingIDs,
                                   !.dropped = @ \cup (missingIDs \cap hist.missing)]
                 ELSE [hist EXCEPT !.faults = TRUE]
      /\ UNCHANGED <<jobs, runnableJobIDs, dependencies, pendingJobs,
                     numPendingJobs, cachingEnabled, jobsCache, dependentsCache>>

MissingJobIDs(fail) ==
  LET out == MissingJobIDsEval(missingJobIDs, fail)
  IN  /\ StateExists
      /\ fail[2] < Len(missingJobIDs) \/ fail = NoFail
      /\ last' = Last("MissingJobIDs", 0, out.err, NoJob, FALSE, out.ids)
      /\ hist' = [hist EXCEPT !.faults = @ \/ fail # NoFail]
      /\ UNCHANGED <<dbVars, numPendingJobs, cachingEnabled, jobsCache,
                     dependentsCache>>

PutJobFails == {"none", "jobs.Put", "pendingJobs.Put"}
RemoveRunnableJobFails ==
  {"none", "runnable.HeadKey", "runnable.Delete", "jobs.Get", "jobs.Delete",
   "pendingJobs.Put"}

NextJobs ==
  \/ \E job \in Jobs, fail \in PutJobFails : PutJob(job, fail)
  \/ \E id \in IDs, fail \in {"none", "jobs.Has"} : HasJob(id, fail)
  \/ \E id \in IDs, fail \in {"none", "jobs.Get"} : GetJob(id, fail)
  \/ \E id \in IDs, fail \in {"none", "runnable.Put"} : AddRunnableJob(id, fail)
  \/ \E fail \in {"none", "runnable.IsEmpty"} : HasRunnableJob(fail)
  \/ \E fail \in RemoveRunnableJobFails : RemoveRunnableJob(fail)
  \/ DisableCaching

SpecJobs == Init /\ [][NextJobs]_vars

RemoveDependenciesFails ==
  {NoFail} \cup {<<"dependents.Delete", k>> : k \in 1..NumIDs}
           \cup {<<"iterator", j>> : j \in 0..NumIDs}

NextDeps ==
  \/ \E d \in IDs, x \in IDs, fail \in {"none", "dependents.Put"} :
        AddDependency(d, x, fail)
  \/ \E d \in IDs, fail \in RemoveDependenciesFails : RemoveDependencies(d, fail)
  \/ DisableCaching

SpecDeps == Init /\ [][NextDeps]_vars

\* The operations that read or write a cache (job store, runnable queue and
\* dependency operations) on one state object, with no store call failing.
NextCaching ==
  \/ \E job \in Jobs : PutJob(job, "none")
  \/ \E id \in IDs : HasJob(id, "none")
  \/ \E id \in IDs : GetJob(id, "none")
  \/ \E id \in IDs : AddRunnableJob(id, "none")
  \/ HasRunnableJob("none")
  \/ RemoveRunnableJob("none")
  \/ \E d \in IDs, x \in IDs : AddDependency(d, x, "none")
  \/ \E d \in IDs : RemoveDependencies(d, NoFail)
  \/ DisableCaching

SpecCaching == Init /\ [][NextCaching]_vars

\* The dependency operations on a state object whose job store, runnable
\* queue and missing set are being filled, with no store call failing.
NextFrame ==
  \/ \E d \in IDs, x \in IDs : AddDependency(d, x, "none")
  \/ \E d \in IDs : RemoveDependencies(d, NoFail)
  \/ DisableCaching
  \/ \E job \in Jobs : PutJob(job, "none")
  \/ \E id \in IDs : AddRunnableJob(id, "none")
  \/ \E S \in SUBSET IDs : \E order \in Orders(S) :
        AddMissingJobIDs(S, order, NoFail)

SpecFrame == Init /\ [][NextFrame]_vars

NextMissing ==
  \/ \E S \in SUBSET IDs, fail \in {NoFail} \cup {<<"missing.Put", k>> : k \in 1..NumIDs} :
        \E order \in Orders(S) : AddMissingJobIDs(S, order, fail)
  \/ \E S \in SUBSET IDs, fail \in {NoFail} \cup {<<"missing.Delete", k>> : k \in 1..NumIDs} :
        \E order \in Orders(S) : RemoveMissingJobIDs(S, order, fail)
  \/ \E fail \in {NoFail} \cup {<<"iterator", j>> : j \in 0..NumIDs} :
        MissingJobIDs(fail)

SpecMissing == Init /\ [][NextMissing]_vars

\* ------------------------------------------------------------- restart
\* A store left by an earlier release: jobs in the job store, no checkpoint.
LegacyDB ==
  /\ jobs \in [Keys -> {NoValue} \cup {Serialize(i) : i \in IDs}]
  /\ \A i \in IDs : jobs[IDKey(i)] \in {NoValue, Serialize(i)}
  /\ runnableJobIDs = <<>>
  /\ dependencies = [d \in IDs |-> <<>>]
  /\ missingJobIDs = <<>>
  /\ pendingJobs = [k \in PendingKeys |-> NoValue]

InitLegacy == LegacyDB /\ Constructed

\* The failures of newState: the scan's iterator can fail only when there is
\* no checkpoint (otherwise no scan is made), and it finds no entry.
NewStateFails ==
  {NoFail, <<"metercacher.New", 0>>, <<"pendingJobs.Get", 0>>}
    \cup (IF pendingJobs[pendingJobsKey] = NoValue
          THEN {<<"iterator", 0>>} ELSE {})

\* newState over the store as it is: a restart of the process.  When
\* newState returns an error there is no state object (the fields are
\* zero, and no method can be called until a newState succeeds).
NewState(fail) ==
  LET out == NewStateOut(pendingJobs, fail)
  IN  /\ fail \in NewStateFails
      /\ numPendingJobs' = IF out.err = ErrNil THEN out.val ELSE 0
      /\ cachingEnabled' = (out.err = ErrNil)
      /\ jobsCache' = <<>>
      /\ dependentsCache' = <<>>
      /\ last' = Last("newState", 0, out.err, NoJob, FALSE, <<>>)
      /\ hist' = [hist EXCEPT
                    !.faults = @ \/ fail[1] \in {"pendingJobs.Get", "iterator"}]
      /\ UNCHANGED dbVars

NextLegacy ==
  \/ NextJobs
  \/ \E fail \in {NoFail, <<"metercacher.New", 0>>, <<"pendingJobs.Get", 0>>,
                   <<"iterator", 0>>} : NewState(fail)

SpecLegacy == InitLegacy /\ [][NextLegacy]_vars

Resident == {i \in IDs : jobs[IDKey(i)] # NoValue}

TypeOK ==
  /\ numPendingJobs \in 0..MaxPuts
  /\ cachingEnabled \in BOOLEAN
  /\ Len(jobsCache) <= JobsCacheCap


\* ------------------------------------------------------------- properties
\* What HasJob(i) and GetJob(i) return in the current state when no store
\* call fails.
HasJobNow(i) == HasJobEval(cachingEnabled, jobsCache, jobs, i, "none")
GetJobNow(i) == GetJobEval(cachingEnabled, jobsCache, jobs, i, "none")

\* C1: in a run without storage failures, HasJob(J.id) is true once PutJob(J)
\* has succeeded and false once J has been returned by RemoveRunnableJob and
\* not been put again, with caching enabled or disabled.
C1_Presence ==
  ~hist.faults =>
    \A i \in IDs :
      /\ hist.live[i] = "put" => HasJobNow(i).has
      /\ hist.live[i] = "dequeued" => ~HasJobNow(i).has

\* C2: the counter a successful newState starts with, over a store with no
\* checkpoint,
\* is the number of entries of the job store.
C2_RecoveredCount ==
  (/\ last.op = "newState"
   /\ last.err = ErrNil
   /\ pendingJobs[pendingJobsKey] = NoValue)
    => numPendingJobs = Cardinality(Resident)

\* C3: from an empty scheduler and without storage failures, the pending
\* counter is the number of job ids resident in the job store.
C3_CounterIsResident ==
  ~hist.faults => numPendingJobs = Cardinality(Resident)

\* C4: from an empty scheduler, with N PutJob calls and M <= N
\* RemoveRunnableJob calls having returned success (all others an error),
\* the pending counter is N - M.
C4_CounterLaw ==
  hist.nRem <= hist.nPut => numPendingJobs = hist.nPut - hist.nRem

C6_PutJobAllOrNothing ==
  [][(last'.op = "PutJob" /\ last'.err # ErrNil)
       => /\ \A i \in IDs :
               /\ HasJobEval(cachingEnabled', jobsCache', jobs', i, "none").has
                    = HasJobNow(i).has
               /\ GetJobEval(cachingEnabled', jobsCache', jobs', i, "none").err
                    = GetJobNow(i).err
               /\ GetJobEval(cachingEnabled', jobsCache', jobs', i, "none").job
                    = GetJobNow(i).job
          /\ numPendingJobs' = numPendingJobs
          /\ pendingJobs' = pendingJobs]_vars

\* C7: in a run without storage failures, GetJob(i) returns the same job or
\* the same error right before and right after DisableCaching().
C7_CacheTransparency ==
  ~hist.faults =>
    \A i \in IDs :
      /\ GetJobNow(i).err = GetJobEval(FALSE, LRUFlush, jobs, i, "none").err
      /\ GetJobNow(i).job = GetJobEval(FALSE, LRUFlush, jobs, i, "none").job

\* C8: GetJob of a job that PutJob has stored and RemoveRunnableJob has not
\* deleted succeeds and returns a job with the id asked for, from the cache
\* and from the store.
C8_RoundTrip ==
  /\ \A i \in IDs :
       hist.live[i] = "put" => GetJobNow(i).err = ErrNil /\ GetJobNow(i).job.id = i
  /\ (last.op = "GetJob" /\ last.err # ErrIO /\ hist.live[last.id] = "put")
       => last.err = ErrNil /\ last.job.id = last.id

\* C8 witness: with caching disabled, GetJob has returned from the store a
\* job that was put and not dequeued.
C8_Witness ==
  /\ last.op = "GetJob"
  /\ last.err = ErrNil
  /\ last.job.id = last.id
  /\ hist.live[last.id] = "put"
  /\ ~cachingEnabled


\* C9: a RemoveDependencies(D) that returns no error, with no failed
\* RemoveDependencies(D) having deleted entries of D since D was last
\* drained, returns the distinct dependents added to D since then, each
\* once, and a RemoveDependencies(D) right after it returns none.
C9_Draining ==
  [][(last'.op = "RemoveDependencies" /\ last'.err = ErrNil
        /\ ~hist.partial[last'.id])
       => /\ SeqSet(last'.ids) = hist.added[last'.id]
          /\ Len(last'.ids) = Cardinality(hist.added[last'.id])
          /\ RemoveDependenciesOut(cachingEnabled', dependentsCache',
                                   dependencies', last'.id, NoFail).ids = <<>>
          /\ RemoveDependenciesOut(cachingEnabled', dependentsCache',
                                   dependencies', last'.id, NoFail).err = ErrNil]_vars

\* C9 witness: RemoveDependencies of dependency 1 has returned two
\* dependents while dependency 2 still has dependents.
C9_Witness ==
  /\ last.op = "RemoveDependencies"
  /\ last.err = ErrNil
  /\ last.id = 1
  /\ Len(last.ids) = 2
  /\ ~hist.partial[1]
  /\ dependencies[1] = <<>>
  /\ dependencies[2] # <<>>

\* C10: in a run without storage failures, MissingJobIDs() returns without
\* duplicates exactly the ids whose last AddMissingJobIDs /
\* RemoveMissingJobIDs was an add, and every add and remove returns no error.
C10_MissingSet ==
  ~hist.faults =>
    LET r == MissingJobIDsEval(missingJobIDs, NoFail)
    IN  /\ r.err = ErrNil
        /\ SeqSet(r.ids) = hist.missing
        /\ Len(r.ids) = Cardinality(hist.missing)
        /\ last.op = "MissingJobIDs" => last.ids = r.ids /\ last.err = ErrNil
        /\ last.op \in {"AddMissingJobIDs", "RemoveMissingJobIDs"}
             => last.err = ErrNil

\* C10 witness: MissingJobIDs has returned id 2 alone after id 1 was added
\* and then removed.
C10_Witness ==
  /\ last.op = "MissingJobIDs"
  /\ last.ids = <<2>>
  /\ hist.missing = {2}
  /\ hist.dropped = {1}
  /\ ~hist.faults


\* C11: once DisableCaching() has been called on a state object, caching
\* stays disabled and the content cache and the handle cache stay empty
\* under every later operation.
C11_DisableIrreversible ==
  [][/\ last'.op = "DisableCaching"
          => ~cachingEnabled' /\ jobsCache' = <<>> /\ dependentsCache' = <<>>
     /\ ~cachingEnabled
          => ~cachingEnabled' /\ jobsCache' = <<>> /\ dependentsCache' = <<>>]_vars

\* C11 witness: with caching disabled and dependents stored, GetJob
\* has returned a job from the store and the caches are empty.
C11_Witness ==
  /\ ~cachingEnabled
  /\ last.op = "GetJob"
  /\ last.err = ErrNil
  /\ jobsCache = <<>>
  /\ dependentsCache = <<>>
  /\ \E d \in IDs : hist.added[d] # {}


\* C12: a failing store call is reported by the operation that made it (here
\* for the first call to fail in a run); in particular MissingJobIDs returns
\* an error, not a truncated list with a nil error, when the iteration over
\* the missing set fails.
C12_FailuresPropagated ==
  [][/\ (hist'.faults /\ ~hist.faults) => last'.err # ErrNil
     /\ \A j \in 0..NumIDs :
          MissingJobIDs(<<"iterator", j>>) => last'.err # ErrNil]_vars


\* Every id in the runnable queue has an entry in the job store.
QueueResident ==
  \A n \in 1..Len(runnableJobIDs) : jobs[runnableJobIDs[n]] # NoValue

\* C13: as long as AddRunnableJob(id) is called only for ids that have an
\* entry in the job store (an id may be added again while queued), every id
\* in the runnable queue has an entry in the job store, and a
\* RemoveRunnableJob that took an id from the queue does not fail with
\* NotFound on looking the job up.
C13_QueueResident ==
  [][/\ (/\ QueueResident
         /\ ~(last'.op = "AddRunnableJob" /\ jobs[IDKey(last'.id)] = NoValue))
          => QueueResident'
     /\ (/\ QueueResident
         /\ last'.op = "RemoveRunnableJob"
         /\ Len(runnableJobIDs') < Len(runnableJobIDs))
          => last'.err # ErrNotFound]_vars

\* C13 witness: two resident ids were queued and RemoveRunnableJob has
\* returned the first; the id still queued is resident.
C13_Witness ==
  /\ QueueResident
  /\ runnableJobIDs # <<>>
  /\ last.op = "RemoveRunnableJob"
  /\ last.err = ErrNil
  /\ last.job # NoJob


\* C14: HasRunnableJob() answers true exactly when some id added by
\* AddRunnableJob has not yet been taken by RemoveRunnableJob (hist.order
\* lists those ids): false on an empty scheduler, not made true by PutJob,
\* and false again once every queued id has been taken.
C14_HasRunnableJob ==
  /\ HasRunnableJobEval(runnableJobIDs, "none").err = ErrNil
  /\ HasRunnableJobEval(runnableJobIDs, "none").has = (hist.order # <<>>)
  /\ (last.op = "HasRunnableJob" /\ last.err = ErrNil)
       => last.has = (hist.order # <<>>)

\* C14 witness: HasRunnableJob has answered false after an id was queued and
\* taken again, while a job is in the job store.
C14_Witness ==
  /\ last.op = "HasRunnableJob"
  /\ last.err = ErrNil
  /\ ~last.has
  /\ hist.nRem > 0
  /\ Resident # {}


\* C15: after every PutJob or RemoveRunnableJob that returned success, the
\* persisted checkpoint agrees with the in-memory counter: a newState over
\* the store as it is would load exactly the counter's value. (A checkpoint
\* equal to the counter implies this.)
C15_CheckpointCurrent ==
  (last.op \in {"PutJob", "RemoveRunnableJob"} /\ last.err = ErrNil)
    => NewStateCounter(pendingJobs, NoFail).val = numPendingJobs


\* C16: the recovery scan is made once: when newState finds no checkpoint it
\* persists the count it recovered, so a checkpoint exists right after a
\* successful newState and the next newState reads it.
C16_RecoveryPersisted ==
  (last.op = "newState" /\ last.err = ErrNil) =>
    /\ pendingJobs[pendingJobsKey] # NoValue
    /\ UnpackUInt64(pendingJobs[pendingJobsKey]) = numPendingJobs


\* C17: a RemoveDependencies(D) whose k-th Delete fails returns an error and
\* no dependents; the k-1 entries deleted before are gone from the bucket
\* and the others are still there; a RemoveDependencies(D) that succeeds
\* right after it returns exactly the entries still there.
C17_PartialDrain ==
  [][\A d \in IDs, k \in 1..NumIDs :
       RemoveDependencies(d, <<"dependents.Delete", k>>)
         => /\ last'.err # ErrNil
            /\ last'.ids = <<>>
            /\ dependencies'[d] =
                 SubSeq(dependencies[d], k, Len(dependencies[d]))
            /\ LET later == RemoveDependenciesOut(cachingEnabled',
                              dependentsCache', dependencies', d, NoFail)
                   gone  == {ToID(dependencies[d][n]).id : n \in 1..(k - 1)}
               IN  /\ later.err = ErrNil
                   /\ SeqSet(later.ids) =
                        {ToID(key).id : key \in SeqSet(dependencies'[d])}
                   /\ SeqSet(later.ids) \cap gone = {}]_vars

\* C17 witness: RemoveDependencies has failed on its second Delete: it
\* returned an error and no dependents, the first entry is gone and the
\* second is still in the bucket.
C17_Witness ==
  /\ last.op = "RemoveDependencies"
  /\ last.err = ErrIO
  /\ last.ids = <<>>
  /\ hist.partial[last.id]
  /\ Len(dependencies[last.id]) = 1
  /\ Cardinality(hist.added[last.id]) = 2


\* C18: when the job lookup of RemoveRunnableJob fails (not found, or the
\* store read fails) after the head id was deleted from the runnable queue,
\* RemoveRunnableJob returns an error and no job, the head id has left the
\* queue, and the job store and the pending counter, in memory and
\* persisted, are as before.
C18_LookupFailure ==
  [][\A f \in {"none", "jobs.Get"} :
       (/\ RemoveRunnableJob(f)
        /\ RunnableNext(runnableJobIDs).err = ErrNil
        /\ GetJobEval(cachingEnabled, jobsCache, jobs,
                      ToID(RunnableNext(runnableJobIDs).key).id, f).err # ErrNil)
         => /\ last'.err # ErrNil
            /\ last'.job = NoJob
            /\ ~SeqHas(runnableJobIDs', RunnableNext(runnableJobIDs).key)
            /\ Len(runnableJobIDs') = Len(runnableJobIDs) - 1
            /\ jobs' = jobs
            /\ numPendingJobs' = numPendingJobs
            /\ pendingJobs' = pendingJobs]_vars

\* C18 witness: RemoveRunnableJob has failed with NotFound on the lookup of
\* the head id while another id was queued behind it, with a job stored and
\* counted.
C18_Witness ==
  /\ last.op = "RemoveRunnableJob"
  /\ last.err = ErrNotFound
  /\ last.job = NoJob
  /\ runnableJobIDs # <<>>
  /\ numPendingJobs > 0
  /\ Resident # {}


\* C19: the pending counter never underflows: it is never below 0 (never
\* wrapped) and never above the number of successful PutJob calls (the
\* counter starts at 0 and no PutJob fails here), and a RemoveRunnableJob that
\* finds its job while the counter is 0 returns the job with no error and
\* leaves counter and checkpoint as they are.
C19_NoUnderflow ==
  [][/\ numPendingJobs' >= 0
     /\ numPendingJobs' <= hist'.nPut
     /\ (/\ RemoveRunnableJob("none")
         /\ numPendingJobs = 0
         /\ RunnableNext(runnableJobIDs).err = ErrNil
         /\ GetJobEval(cachingEnabled, jobsCache, jobs,
                       ToID(RunnableNext(runnableJobIDs).key).id, "none").err
              = ErrNil)
          => /\ last'.err = ErrNil
             /\ last'.job # NoJob
             /\ numPendingJobs' = 0
             /\ pendingJobs' = pendingJobs]_vars

\* C19 witness: a second RemoveRunnableJob has returned a job after a single
\* PutJob, and the counter is 0.
C19_Witness ==
  /\ last.op = "RemoveRunnableJob"
  /\ last.err = ErrNil
  /\ last.job # NoJob
  /\ hist.nRem = 2
  /\ hist.nPut = 1
  /\ numPendingJobs = 0


\* C20: for distinct dependencies D and D2, AddDependency(D, X) and
\* RemoveDependencies(D) leave the bucket of D2, and what a
\* RemoveDependencies(D2) would return, as they are, and leave the job
\* store, the runnable queue, the missing set and the pending counter (in
\* memory and persisted) as they are, with the handle cache enabled or
\* disabled.
C20_DependencyFrame ==
  [][\A d \in IDs :
       (last'.op \in {"AddDependency", "RemoveDependencies"} /\ last'.id = d)
         => /\ \A d2 \in IDs \ {d} :
                 /\ dependencies'[d2] = dependencies[d2]
                 /\ RemoveDependenciesOut(cachingEnabled', dependentsCache',
                                          dependencies', d2, NoFail).ids
                      = RemoveDependenciesOut(cachingEnabled, dependentsCache,
                                              dependencies, d2, NoFail).ids
            /\ jobs' = jobs
            /\ runnableJobIDs' = runnableJobIDs
            /\ missingJobIDs' = missingJobIDs
            /\ numPendingJobs' = numPendingJobs
            /\ pendingJobs' = pendingJobs]_vars

\* C20 witness: with caching enabled, RemoveDependencies(D) has returned
\* dependents while the other dependency has dependents and its handle was
\* evicted from the handle cache, and the job store, the runnable queue, the
\* missing set and the counter are not empty.
C20_Witness ==
  /\ last.op = "RemoveDependencies"
  /\ last.err = ErrNil
  /\ last.ids # <<>>
  /\ cachingEnabled
  /\ \A n \in 1..Len(dependentsCache) : dependentsCache[n][1] = last.id
  /\ \E d2 \in IDs \ {last.id} : dependencies[d2] # <<>>
  /\ Resident # {}
  /\ runnableJobIDs # <<>>
  /\ missingJobIDs # <<>>
  /\ numPendingJobs > 0

====
